---- MODULE Spec2Model ----
(***************************************************************************)
(* Model of django_unicorn/views/request.py: parse_multipart_data and the  *)
(* construction of a ComponentRequest (body decoding, required-field       *)
(* checks, checksum validation and action classification).                 *)
(*                                                                         *)
(* Strings that the code inspects character by character (form keys) are   *)
(* sequences of tokens: ".", "[", "]" and the digits are tokens of their   *)
(* own, every other token is a run of characters holding none of them.     *)
(* "data.items[2].x" is <<"data", ".", "items", "[", "2", "]", ".", "x">>. *)
(* Mapping keys are such token sequences as well.                          *)
(***************************************************************************)
EXTENDS Integers, Sequences, FiniteSets, TLC

(***************************************************************************)
(* Values: JSON values, Python None, uploaded files and form strings.      *)
(***************************************************************************)
NullV == [t |-> "null"]
Str(s) == [t |-> "str", v |-> s]
MapV(f) == [t |-> "map", m |-> f]
ListV(s) == [t |-> "list", l |-> s]
FileV(n) == [t |-> "file", f |-> n]
\* A string holding serialized JSON that decodes to doc, and one that does not decode.
JsonText(doc) == [t |-> "jsontext", doc |-> doc]
BadText == [t |-> "badtext"]
\* The string generate_checksum returns for a value, and that string with a suffix.
DigestStr(d, suffix) == [t |-> "digest", of |-> d, suffix |-> suffix]

EmptyMap == MapV(<<>>)
EmptyList == ListV(<<>>)

\* A raised exception, as a result of a helper.
Err(kind) == [t |-> "error", kind |-> kind]
IsErr(r) == r.t = "error"

Range(s) == {s[j] : j \in 1..Len(s)}
Max(a, b) == IF a >= b THEN a ELSE b

\* dict[k] = v
Put(m, k, v) == [x \in (DOMAIN m) \cup {k} |-> IF x = k THEN v ELSE m[x]]
\* The mapping holding the key/value pairs of S (keys distinct).
MapOf(S) == MapV([k \in {p[1] : p \in S} |-> (CHOOSE p \in S : p[1] = k)[2]])
\* dict.get(k, default)
Get(d, k, default) == IF k \in DOMAIN d.m THEN d.m[k] ELSE default

\* Python truthiness of a value (`not x` is ~Truthy(x)).
Truthy(x) ==
    CASE x.t = "null" -> FALSE
      [] x.t = "str" -> x.v # ""
      [] x.t = "map" -> DOMAIN x.m # {}
      [] x.t = "list" -> Len(x.l) > 0
      [] OTHER -> TRUE

(***************************************************************************)
(* String operations of parse_multipart_data, on token sequences.          *)
(***************************************************************************)
Digits == <<"0", "1", "2", "3", "4", "5", "6", "7", "8", "9">>

K(name) == <<name>>
DataPrefix == <<"data", ".">>

\* key.startswith("data.")
StartsWithData(key) == Len(key) >= Len(DataPrefix) /\ SubSeq(key, 1, Len(DataPrefix)) = DataPrefix
\* key[5:]
StripPrefix(key) == SubSeq(key, Len(DataPrefix) + 1, Len(key))

\* field_path.split(".")
RECURSIVE Split(_)
Split(s) ==
    IF \A j \in 1..Len(s) : s[j] # "." THEN <<s>>
    ELSE LET p == CHOOSE j \in 1..Len(s) : s[j] = "." /\ \A q \in 1..(j - 1) : s[q] # "."
         IN <<SubSeq(s, 1, p - 1)>> \o Split(SubSeq(s, p + 1, Len(s)))

\* "[" in part and "]" in part
HasBrackets(part) == "[" \in Range(part) /\ "]" \in Range(part)
\* part.index(c), 1-based
IndexOf(part, c) == CHOOSE j \in 1..Len(part) : part[j] = c /\ \A q \in 1..(j - 1) : part[q] # c
\* part[:part.index("[")]
BaseKey(part) == SubSeq(part, 1, IndexOf(part, "[") - 1)
\* part[part.index("[") + 1:part.index("]")]
IndexText(part) == SubSeq(part, IndexOf(part, "[") + 1, IndexOf(part, "]") - 1)

\* int(text) succeeds (text is made of digits; signs, blanks and underscores are not modelled)
IsInt(text) == Len(text) > 0 /\ \A j \in 1..Len(text) : text[j] \in Range(Digits)
DigitValue(c) == (CHOOSE j \in 1..Len(Digits) : Digits[j] = c) - 1
RECURSIVE IntOf(_)
IntOf(text) ==
    IF Len(text) = 0 THEN 0
    ELSE 10 * IntOf(SubSeq(text, 1, Len(text) - 1)) + DigitValue(text[Len(text)])

\* The mapping key a Python int is, as opposed to the string of its digits.
RECURSIVE Decimal(_)
Decimal(n) == IF n < 10 THEN <<Digits[n + 1]>> ELSE Decimal(n \div 10) \o <<Digits[(n % 10) + 1]>>
IntKey(n) == <<"int">> \o Decimal(n)

\* while len(lst) <= index: lst.append(filler)
PadOneMore(lst, index, filler) ==
    [j \in 1..Max(Len(lst), index + 2) |-> IF j <= Len(lst) THEN lst[j] ELSE filler]
Pad(lst, index, filler) ==
    [j \in 1..Max(Len(lst), index + 1) |-> IF j <= Len(lst) THEN lst[j] ELSE filler]

\* len() of a value that has one
PyLen(x) ==
    CASE x.t = "map" -> Cardinality(DOMAIN x.m)
      [] x.t = "list" -> Len(x.l)
      [] x.t = "str" -> Len(x.v)

(***************************************************************************)
(* parse_multipart_data, the POST loop body for a "data." key: the walk    *)
(* along parts from `current`, returning the updated `current` or the      *)
(* exception raised. Python mutates the nested containers in place; here   *)
(* each level returns its updated copy.                                    *)
(*                                                                         *)
(* Where a container of the wrong shape is met, Python raises TypeError,   *)
(* AttributeError or KeyError depending on the shapes; the kinds are kept. *)
(* A `current` that is not a mapping raises TypeError at its first use,    *)
(* whichever branch is taken (`in` on None, item assignment on a str or    *)
(* with a str index on a list).                                            *)
(***************************************************************************)
\* Final segment with brackets, lines 48-54.
SetFinalIndexed(current, part, value) ==
    IF ~IsInt(IndexText(part)) THEN Err("ValueError")
    ELSE IF current.t # "map" THEN Err("TypeError")
    ELSE LET base_key == BaseKey(part)
             index == IntOf(IndexText(part))
             existing == Get(current, base_key, EmptyList)
         IN CASE existing.t = "list" ->
                   MapV(Put(current.m, base_key,
                            ListV([Pad(existing.l, index, NullV) EXCEPT ![index + 1] = value])))
              [] existing.t = "map" ->
                   IF PyLen(existing) <= index THEN Err("AttributeError")
                   ELSE MapV(Put(current.m, base_key, MapV(Put(existing.m, IntKey(index), value))))
              [] existing.t = "str" ->
                   IF PyLen(existing) <= index THEN Err("AttributeError") ELSE Err("TypeError")
              [] OTHER -> Err("TypeError")

\* Final segment, lines 46-56.
SetFinal(current, part, value) ==
    IF HasBrackets(part) THEN SetFinalIndexed(current, part, value)
    ELSE IF current.t # "map" THEN Err("TypeError")
    ELSE MapV(Put(current.m, part, value))

\* Lines 30-56: parts[:-1] are walked, creating containers, then parts[-1] is set.
RECURSIVE SetPath(_, _, _)
SetPath(current, parts, value) ==
    LET part == Head(parts) IN
    IF Len(parts) = 1 THEN SetFinal(current, part, value)
    ELSE IF HasBrackets(part) THEN
        IF ~IsInt(IndexText(part)) THEN Err("ValueError")
        ELSE IF current.t # "map" THEN Err("TypeError")
        ELSE LET base_key == BaseKey(part)
                 index == IntOf(IndexText(part))
                 existing == Get(current, base_key, EmptyList)
             IN CASE existing.t = "list" ->
                       LET padded == Pad(existing.l, index, EmptyMap)
                           child == SetPath(padded[index + 1], Tail(parts), value)
                       IN IF IsErr(child) THEN child
                          ELSE MapV(Put(current.m, base_key,
                                        ListV([padded EXCEPT ![index + 1] = child])))
                  [] existing.t = "map" ->
                       IF PyLen(existing) <= index THEN Err("AttributeError")
                       ELSE IF IntKey(index) \notin DOMAIN existing.m THEN Err("KeyError")
                       ELSE LET child == SetPath(existing.m[IntKey(index)], Tail(parts), value)
                            IN IF IsErr(child) THEN child
                               ELSE MapV(Put(current.m, base_key,
                                             MapV(Put(existing.m, IntKey(index), child))))
                  [] existing.t = "str" ->
                       \* current becomes one character of the string: the rest of the
                       \* walk raises, whatever the character is
                       IF PyLen(existing) <= index THEN Err("AttributeError")
                       ELSE SetPath(existing, Tail(parts), value)
                  [] OTHER -> Err("TypeError")
    ELSE IF current.t # "map" THEN Err("TypeError")
    ELSE LET child == SetPath(Get(current, part, EmptyMap), Tail(parts), value)
         IN IF IsErr(child) THEN child ELSE MapV(Put(current.m, part, child))

\* loads(value): the structured-text decoder (django_unicorn.serializer).
Loads(text) == IF text.t = "jsontext" THEN text.doc ELSE Err("JSONDecodeError")

\* Lines 23-62: one iteration of the POST loop.
ParsePostItem(data, key, value) ==
    IF StartsWithData(key) THEN SetPath(data, Split(StripPrefix(key)), value)
    ELSE IF key = K("actionQueue") THEN
        LET decoded == Loads(value)
        IN IF IsErr(decoded) THEN decoded ELSE MapV(Put(data.m, key, decoded))
    ELSE MapV(Put(data.m, key, value))

\* Lines 70-73: the files loop walks parts[:-1] as plain mapping keys.
RECURSIVE SetFilePath(_, _, _)
SetFilePath(current, parts, value) ==
    IF current.t # "map" THEN Err("TypeError")
    ELSE IF Len(parts) = 1 THEN MapV(Put(current.m, Head(parts), value))
    ELSE LET child == SetFilePath(Get(current, Head(parts), EmptyMap), Tail(parts), value)
         IN IF IsErr(child) THEN child ELSE MapV(Put(current.m, Head(parts), child))

\* Lines 77-80: a single file is stored as itself, several as the list.
FileLeaf(file_list) == IF Len(file_list) = 1 THEN file_list[1] ELSE ListV(file_list)

\* Lines 66-80: one iteration of the FILES loop.
ParseFilesItem(data, key, file_list) ==
    IF StartsWithData(key) THEN SetFilePath(data, Split(StripPrefix(key)), FileLeaf(file_list))
    ELSE data

(***************************************************************************)
(* External collaborators of request.py, modelled from their contracts.    *)
(***************************************************************************)
\* generate_checksum(data): a deterministic, non-empty string of the value.
GenerateChecksum(d) == DigestStr(d, "")

\* parse_call_method_name(name): the bare method name of a method-call expression, or
\* a rejection. Whether the empty expression is rejected is left to the parser.
Parsed(method_name) == [t |-> "parsed", method_name |-> method_name]
ParseCallMethodName(name) ==
    CASE name = Str("") -> {Err("ParserError"), Parsed("")}
      [] name = Str("$refresh") -> {Parsed("$refresh")}
      [] name = Str("$reset") -> {Parsed("$reset")}
      [] name = Str("$toggle('show')") -> {Parsed("$toggle")}
      [] name = Str("save") -> {Parsed("save")}
      [] name = Str("refresh(1)") -> {Parsed("refresh")}
      [] OTHER -> {Err("ParserError")}

(***************************************************************************)
(* ComponentRequest.__init__: the checks, in the order of the statements.  *)
(***************************************************************************)
kData == K("data")
kId == K("id")
kEpoch == K("epoch")
kKey == K("key")
kHash == K("hash")
kChecksum == K("checksum")
kActionQueue == K("actionQueue")
kType == K("type")
kPayload == K("payload")
kName == K("name")

Error(kind, msg) == [kind |-> kind, msg |-> msg]
NoError == Error("none", "")
Unset == [t |-> "unset"]

\* Line 118: `if not self.body`
InvalidBody(b) == ~Truthy(b)
\* Lines 123-124: `if not self.name`
MissingName(component_name) == ~Truthy(component_name)
\* Lines 127-128: `self.body.get("data")`, `if self.data is None`
MissingData(b) == Get(b, kData, NullV) = NullV
\* Lines 131-132: `self.body.get("id")`, `if not self.id`
MissingId(b) == ~Truthy(Get(b, kId, NullV))
\* Lines 135-136: `self.body.get("epoch", "")`, `if not self.epoch`
MissingEpoch(b) == ~Truthy(Get(b, kEpoch, Str("")))

\* validate_checksum, lines 180-188: the message of the AssertionError raised, "" if none.
ValidateChecksumNoCompare(b, d) ==
    IF ~Truthy(Get(b, kChecksum, NullV)) THEN "Missing checksum" ELSE ""
ValidateChecksumSkipped(b, d) == ""
ValidateChecksum(b, d) ==
    LET checksum == Get(b, kChecksum, NullV)
    IN IF ~Truthy(checksum) THEN "Missing checksum"
       ELSE IF checksum # GenerateChecksum(d) THEN "Checksum does not match"
       ELSE ""

\* The statement order of lines 118-146: the step that follows each passed check.
NextStepIdAfterEpoch(step) ==
    CASE step = "body_check" -> "name"
      [] step = "name" -> "data"
      [] step = "data" -> "epoch"
      [] step = "epoch" -> "id"
      [] step = "id" -> "key_hash"
      [] step = "key_hash" -> "checksum"
      [] step = "checksum" -> "classify"
NextStep(step) ==
    CASE step = "body_check" -> "name"
      [] step = "name" -> "data"
      [] step = "data" -> "id"
      [] step = "id" -> "epoch"
      [] step = "epoch" -> "key_hash"
      [] step = "key_hash" -> "checksum"
      [] step = "checksum" -> "classify"

(***************************************************************************)
(* Action classification, lines 147-165.                                   *)
(***************************************************************************)
Classified(variant, action_data) == [t |-> "action", variant |-> variant, raw |-> action_data]

\* Lines 156-163: the class chosen for a callMethod by its parsed method name.
CallMethodVariant(method_name) ==
    CASE method_name = "$refresh" -> "Refresh"
      [] method_name = "$reset" -> "Reset"
      [] method_name = "$toggle" -> "Toggle"
      [] OTHER -> "CallMethod"

\* Lines 147-165: the outcomes of classifying one raw action: the classified action,
\* or the exception the method-name parser raised.
Classify(action_data) ==
    LET action_type == Get(action_data, kType, NullV)
        payload == Get(action_data, kPayload, EmptyMap)
    IN IF action_type = Str("syncInput") THEN {Classified("SyncInput", action_data)}
       ELSE IF action_type = Str("callMethod") THEN
           {IF IsErr(r) THEN r ELSE Classified(CallMethodVariant(r.method_name), action_data) :
                r \in ParseCallMethodName(Get(payload, kName, Str("")))}
       ELSE {Classified("Action", action_data)}

\* self.action_queue.append(action)
AppendActionPrepend(queue, action) == ListV(<<action>> \o queue.l)
AppendAction(queue, action) == ListV(Append(queue.l, action))

(***************************************************************************)
(* The requests the construction is run on.                                *)
(***************************************************************************)
MaxQueue == 3
MaxDataFields == 2
MaxFiles == 2

\* All sequences over S of length at most n, and those without repeated first components.
RECURSIVE SeqsUpTo(_, _)
SeqsUpTo(S, n) ==
    IF n = 0 THEN {<<>>}
    ELSE LET shorter == SeqsUpTo(S, n - 1)
         IN shorter \cup {Append(q, x) : q \in shorter, x \in S}
DistinctKeys(q) == \A a, b \in 1..Len(q) : a # b => q[a][1] # q[b][1]

\* Raw actions of an actionQueue.
RawAction(type, payload) == MapOf({<<kType, Str(type)>>, <<kPayload, payload>>})
RawCallMethod(name) == RawAction("callMethod", MapOf({<<kName, Str(name)>>}))
RawActions ==
    { RawAction("syncInput", MapOf({<<kName, Str("foo")>>, <<K("value"), Str("v")>>})),
      RawCallMethod("$refresh"),
      RawCallMethod("$reset"),
      RawCallMethod("$toggle('show')"),
      RawCallMethod("save"),
      RawCallMethod("refresh(1)"),
      RawCallMethod("broken("),
      RawAction("callMethod", EmptyMap),
      MapOf({<<kType, Str("callMethod")>>}),
      RawAction("unknownThing", EmptyMap),
      MapOf({<<kPayload, MapOf({<<kName, Str("$reset")>>})>>}) }

\* Values of the `data` field of a JSON document.
DataFoo == MapOf({<<K("foo"), Str("v")>>})
DataItems == MapOf({<<K("items"), ListV(<<EmptyMap, EmptyMap, MapOf({<<K("x"), Str("v")>>})>>)>>})

\* A document from optional fields: a field whose value is Unset is left out.
Document(fields) == MapOf({f \in fields : f[2] # Unset})

\* The checksums a client may send with `data` d.
ChecksumsFor(d) ==
    {Unset, Str(""), NullV, GenerateChecksum(d), DigestStr(d, "x"), GenerateChecksum(Str("w"))}

\* JSON bodies: undecodable text, the empty document, and documents with each
\* required field absent, empty or present.
JsonValidationDocs ==
    { Document({<<kData, d>>, <<kId, i>>, <<kEpoch, e>>, <<kChecksum, c>>, <<kActionQueue, q>>}) :
        d \in {Unset, NullV, EmptyMap, DataFoo},
        i \in {Unset, Str(""), Str("i")},
        e \in {Unset, Str(""), Str("e")},
        c \in ChecksumsFor(DataFoo),
        q \in {Unset, ListV(<<RawCallMethod("save")>>)} }
\* JSON bodies that pass the field checks, with every queue of raw actions.
JsonQueueDocs ==
    { Document({<<kData, d>>, <<kId, Str("i")>>, <<kEpoch, Str("e")>>, <<kKey, Str("k")>>,
                <<kChecksum, c>>, <<kActionQueue, ListV(q)>>}) :
        d \in {DataItems},
        c \in {GenerateChecksum(DataItems), DigestStr(DataItems, "x")},
        q \in SeqsUpTo(RawActions, MaxQueue) }

JsonRequest(raw, component_name) ==
    [multipart |-> FALSE, raw |-> raw, POST |-> <<>>, FILES |-> <<>>, name |-> component_name]
JsonRequests ==
    {JsonRequest(raw, nm) : raw \in {BadText, JsonText(EmptyMap)}, nm \in {Str(""), Str("c")}}
    \cup {JsonRequest(JsonText(doc), nm) : doc \in JsonValidationDocs, nm \in {Str(""), Str("c")}}
    \cup {JsonRequest(JsonText(doc), Str("c")) : doc \in JsonQueueDocs}

\* Form keys.
DataKey(path) == DataPrefix \o path
FormDataKeys ==
    { DataKey(<<"foo">>),
      DataKey(<<"foo", ".", "bar">>),
      DataKey(<<"items", "[", "2", "]", ".", "x">>),
      DataKey(<<"items", "[", "0", "]", ".", "x">>),
      DataKey(<<"items", "[", "1", "]">>),
      DataKey(<<"items", "[", "0", "]">>),
      DataKey(<<"items", ".", "x">>),
      DataKey(<<"foo", "[", "0", "]", ".", "x">>),
      DataKey(<<"items", "[", "2">>),
      DataKey(<<"items", "2", "]">>),
      DataKey(<<"items", "[", "]">>),
      DataKey(<<"items", "[", "x", "]">>),
      DataKey(<<"id">>),
      DataKey(<<"checksum">>),
      DataKey(<<"data", ".", "foo">>) }
FormDataFields == {<<k, Str("v")>> : k \in FormDataKeys} \cup {<<DataKey(<<"foo">>), Str("w")>>}

\* The form fields of a field set: a field whose value is Unset is left out.
RECURSIVE Fields(_)
Fields(q) ==
    IF q = <<>> THEN <<>>
    ELSE IF Head(q)[2] = Unset THEN Fields(Tail(q)) ELSE <<Head(q)>> \o Fields(Tail(q))

MultipartRequest(post, files, component_name) ==
    [multipart |-> TRUE, raw |-> BadText, POST |-> post, FILES |-> files, name |-> component_name]

\* Forms with the protocol fields before or after up to MaxDataFields data.* fields.
ProtocolFields ==
    { <<<<kChecksum, c>>, <<kId, Str("i")>>, <<kEpoch, Str("e")>>>> :
        c \in {GenerateChecksum(DataFoo), GenerateChecksum(Str("v"))} }
MultipartTreeRequests ==
    { MultipartRequest(post, <<>>, Str("c")) :
        post \in UNION { {proto \o q, q \o proto} :
                         proto \in ProtocolFields,
                         q \in {x \in SeqsUpTo(FormDataFields, MaxDataFields) : DistinctKeys(x)} } }

\* Forms with each protocol field absent, empty or present.
MultipartValidationRequests ==
    { MultipartRequest(Fields(<<<<kChecksum, c>>, <<kId, i>>, <<kEpoch, e>>, <<kData, d>>,
                                <<kActionQueue, q>>>>), <<>>, nm) :
        c \in ChecksumsFor(Str("v")) \ {NullV},
        i \in {Unset, Str(""), Str("i")},
        e \in {Unset, Str(""), Str("e")},
        d \in {Unset, Str("v")},
        q \in {Unset, BadText, JsonText(ListV(<<RawCallMethod("$reset")>>))},
        nm \in {Str(""), Str("c")} }

\* Forms with uploaded files.
FileLists == {q \in SeqsUpTo({FileV("f1"), FileV("f2")}, MaxFiles) : q # <<>>}
FileKeys ==
    { DataKey(<<"upload">>),
      DataKey(<<"items", "[", "1", "]", ".", "doc">>),
      DataKey(<<"foo", ".", "bar">>),
      DataKey(<<"data", ".", "doc">>),
      K("upload") }
FileEntries == {<<k, fl>> : k \in FileKeys, fl \in FileLists}
MultipartFileRequests ==
    { MultipartRequest(post, files, Str("c")) :
        post \in {<<>>} \cup
                 { proto \o q : proto \in ProtocolFields,
                                q \in { <<>>, <<<<kData, Str("v")>>>>,
                                        <<<<DataKey(<<"foo">>), Str("v")>>>>,
                                        <<<<DataKey(<<"items", "[", "1", "]", ".", "x">>), Str("v")>>>>,
                                        <<<<DataKey(<<"data", ".", "foo">>), Str("v")>>>> } },
        files \in {<<>>} \cup {<<e>> : e \in FileEntries}
                 \cup {q \in {<<a, b>> : a, b \in FileEntries} :
                         DistinctKeys(q) /\ Len(q[1][2]) = 1 /\ Len(q[2][2]) = 1} }

Requests ==
    JsonRequests \cup MultipartTreeRequests \cup MultipartValidationRequests
    \cup MultipartFileRequests

(***************************************************************************)
(* The construction of one ComponentRequest, statement by statement.       *)
(*   request       the inbound request and the component name              *)
(*   pc            the statement __init__ is at; "done" once it returned,  *)
(*                 "failed" once it raised                                 *)
(*   parsed        the local `data` of parse_multipart_data                *)
(*   n             the position of the running loop                        *)
(*   body .. action_queue   the attributes of the instance                 *)
(*   error         the exception that left __init__                        *)
(*   parser_calls  how often parse_call_method_name was called             *)
(***************************************************************************)
VARIABLES request, pc, parsed, n, body, name, data, id, epoch, key, hash, action_queue,
          error, parser_calls

vars == <<request, pc, parsed, n, body, name, data, id, epoch, key, hash, action_queue,
          error, parser_calls>>

Init ==
    /\ request \in Requests
    /\ pc = "start"
    /\ parsed = Unset
    /\ n = 0
    /\ body = Unset
    /\ name = Unset
    /\ data = Unset
    /\ id = Unset
    /\ epoch = Unset
    /\ key = Unset
    /\ hash = Unset
    /\ action_queue = Unset
    /\ error = NoError
    /\ parser_calls = 0

\* raise: __init__ is left with the exception, no instance is returned.
Raise(e) == pc' = "failed" /\ error' = e

\* Lines 120-121: only a JSONDecodeError is caught and raised again as UnicornViewError.
DecodeError(kind) ==
    IF kind = "JSONDecodeError" THEN Error("UnicornViewError", "Body could not be parsed")
    ELSE Error(kind, "")

\* Lines 103-116: the body is decoded as JSON unless the content type is multipart.
Start ==
    /\ pc = "start"
    /\ IF request.multipart
       THEN /\ body' = EmptyMap
            /\ parsed' = EmptyMap
            /\ n' = 1
            /\ pc' = "post"
            /\ error' = error
       ELSE LET decoded == Loads(request.raw)
            IN /\ parsed' = parsed
               /\ n' = n
               /\ IF IsErr(decoded)
                  THEN body' = EmptyMap /\ Raise(DecodeError(decoded.kind))
                  ELSE body' = decoded /\ pc' = "body_check" /\ error' = error
    /\ UNCHANGED <<request, name, data, id, epoch, key, hash, action_queue, parser_calls>>

\* Lines 22-62: one iteration of the loop over request.POST.items().
ParsePost ==
    /\ pc = "post"
    /\ n <= Len(request.POST)
    /\ LET result == ParsePostItem(parsed, request.POST[n][1], request.POST[n][2])
       IN IF IsErr(result)
          THEN Raise(DecodeError(result.kind)) /\ UNCHANGED <<parsed, n>>
          ELSE parsed' = result /\ n' = n + 1 /\ UNCHANGED <<pc, error>>
    /\ UNCHANGED <<request, body, name, data, id, epoch, key, hash, action_queue, parser_calls>>

\* Line 65: the POST loop is over, the FILES loop starts.
PostDone ==
    /\ pc = "post"
    /\ n > Len(request.POST)
    /\ pc' = "files"
    /\ n' = 1
    /\ UNCHANGED <<request, parsed, body, name, data, id, epoch, key, hash, action_queue,
                   error, parser_calls>>

\* Lines 65-80: one iteration of the loop over request.FILES.lists().
ParseFiles ==
    /\ pc = "files"
    /\ n <= Len(request.FILES)
    /\ LET result == ParseFilesItem(parsed, request.FILES[n][1], request.FILES[n][2])
       IN IF IsErr(result)
          THEN Raise(DecodeError(result.kind)) /\ UNCHANGED <<parsed, n>>
          ELSE parsed' = result /\ n' = n + 1 /\ UNCHANGED <<pc, error>>
    /\ UNCHANGED <<request, body, name, data, id, epoch, key, hash, action_queue, parser_calls>>

\* Lines 82 and 113: parse_multipart_data returns, self.body is assigned.
FilesDone ==
    /\ pc = "files"
    /\ n > Len(request.FILES)
    /\ body' = parsed
    /\ pc' = "body_check"
    /\ UNCHANGED <<request, parsed, n, name, data, id, epoch, key, hash, action_queue,
                   error, parser_calls>>

\* Lines 118-119.
CheckBody ==
    /\ pc = "body_check"
    /\ IF InvalidBody(body)
       THEN Raise(Error("AssertionError", "Invalid body"))
       ELSE pc' = NextStep("body_check") /\ error' = error
    /\ UNCHANGED <<request, parsed, n, body, name, data, id, epoch, key, hash, action_queue,
                   parser_calls>>

\* Lines 123-125.
CheckName ==
    /\ pc = "name"
    /\ name' = request.name
    /\ IF MissingName(request.name)
       THEN Raise(Error("AssertionError", "Missing component name"))
       ELSE pc' = NextStep("name") /\ error' = error
    /\ UNCHANGED <<request, parsed, n, body, data, id, epoch, key, hash, action_queue,
                   parser_calls>>

\* Lines 127-129.
CheckData ==
    /\ pc = "data"
    /\ data' = Get(body, kData, NullV)
    /\ IF MissingData(body)
       THEN Raise(Error("AssertionError", "Missing data"))
       ELSE pc' = NextStep("data") /\ error' = error
    /\ UNCHANGED <<request, parsed, n, body, name, id, epoch, key, hash, action_queue,
                   parser_calls>>

\* Lines 131-133.
CheckId ==
    /\ pc = "id"
    /\ id' = Get(body, kId, NullV)
    /\ IF MissingId(body)
       THEN Raise(Error("AssertionError", "Missing component id"))
       ELSE pc' = NextStep("id") /\ error' = error
    /\ UNCHANGED <<request, parsed, n, body, name, data, epoch, key, hash, action_queue,
                   parser_calls>>

\* Lines 135-137.
CheckEpoch ==
    /\ pc = "epoch"
    /\ epoch' = Get(body, kEpoch, Str(""))
    /\ IF MissingEpoch(body)
       THEN Raise(Error("AssertionError", "Missing epoch"))
       ELSE pc' = NextStep("epoch") /\ error' = error
    /\ UNCHANGED <<request, parsed, n, body, name, data, id, key, hash, action_queue,
                   parser_calls>>

\* Lines 139-140.
ReadKeyAndHash ==
    /\ pc = "key_hash"
    /\ key' = Get(body, kKey, Str(""))
    /\ hash' = Get(body, kHash, Str(""))
    /\ pc' = NextStep("key_hash")
    /\ UNCHANGED <<request, parsed, n, body, name, data, id, epoch, action_queue, error,
                   parser_calls>>

\* Lines 142-144: validate_checksum, then the empty action_queue.
CheckChecksum ==
    /\ pc = "checksum"
    /\ LET msg == ValidateChecksum(body, data)
       IN IF msg # ""
          THEN Raise(Error("AssertionError", msg)) /\ UNCHANGED <<action_queue, n>>
          ELSE /\ action_queue' = EmptyList
               /\ n' = 1
               /\ pc' = NextStep("checksum")
               /\ error' = error
    /\ UNCHANGED <<request, parsed, body, name, data, id, epoch, key, hash, parser_calls>>

\* self.body.get("actionQueue", [])
RawQueue(b) == Get(b, kActionQueue, EmptyList).l

\* Lines 146-165: one iteration of the loop over the actionQueue.
ClassifyAction ==
    /\ pc = "classify"
    /\ n <= Len(RawQueue(body))
    /\ LET action_data == RawQueue(body)[n]
       IN /\ parser_calls' = IF Get(action_data, kType, NullV) = Str("callMethod")
                             THEN parser_calls + 1 ELSE parser_calls
          /\ \E outcome \in Classify(action_data) :
                IF IsErr(outcome)
                THEN Raise(Error(outcome.kind, "")) /\ UNCHANGED <<action_queue, n>>
                ELSE /\ action_queue' = AppendAction(action_queue, outcome)
                     /\ n' = n + 1
                     /\ UNCHANGED <<pc, error>>
    /\ UNCHANGED <<request, parsed, body, name, data, id, epoch, key, hash>>

\* The loop is over: __init__ returns the instance.
Finish ==
    /\ pc = "classify"
    /\ n > Len(RawQueue(body))
    /\ pc' = "done"
    /\ UNCHANGED <<request, parsed, n, body, name, data, id, epoch, key, hash, action_queue,
                   error, parser_calls>>

Next ==
    \/ Start
    \/ ParsePost
    \/ PostDone
    \/ ParseFiles
    \/ FilesDone
    \/ CheckBody
    \/ CheckName
    \/ CheckData
    \/ CheckId
    \/ CheckEpoch
    \/ ReadKeyAndHash
    \/ CheckChecksum
    \/ ClassifyAction
    \/ Finish

Spec == Init /\ [][Next]_vars

(***************************************************************************)
(* Properties.                                                             *)
(***************************************************************************)
Finished == pc \in {"done", "failed"}

\* The document parse_multipart_data or loads yields for a request, or the exception.
RECURSIVE FoldPost(_, _)
FoldPost(tree, post) ==
    IF post = <<>> \/ IsErr(tree) THEN tree
    ELSE FoldPost(ParsePostItem(tree, Head(post)[1], Head(post)[2]), Tail(post))
RECURSIVE FoldFiles(_, _)
FoldFiles(tree, files) ==
    IF files = <<>> \/ IsErr(tree) THEN tree
    ELSE FoldFiles(ParseFilesItem(tree, Head(files)[1], Head(files)[2]), Tail(files))
DecodedBody(req) ==
    IF req.multipart THEN FoldFiles(FoldPost(EmptyMap, req.POST), req.FILES)
    ELSE Loads(req.raw)

\* A field of a document is there and not empty.
Present(b, k) == k \in DOMAIN b.m /\ Truthy(b.m[k])
\* The required fields of a document are there: data not null, id and epoch not empty.
FieldsPresent(b) ==
    /\ kData \in DOMAIN b.m /\ b.m[kData] # NullV
    /\ Present(b, kId)
    /\ Present(b, kEpoch)
\* The request decodes to a non-empty document and passes the four field checks.
PassesFieldChecks(req) ==
    /\ ~IsErr(DecodedBody(req))
    /\ Truthy(DecodedBody(req))
    /\ Truthy(req.name)
    /\ FieldsPresent(DecodedBody(req))
\* The supplied checksum is there, not empty, and the digest of the document's data.
ChecksumMatches(b) ==
    /\ Present(b, kChecksum)
    /\ b.m[kChecksum] = DigestStr(Get(b, kData, NullV), "")
IsChecksumError(e) ==
    e.kind = "AssertionError" /\ e.msg \in {"Missing checksum", "Checksum does not match"}

\* C1 as stated: once the body decodes and name, data, id and epoch are present,
\* construction succeeds if the checksum equals digest(data), and otherwise fails with
\* the checksum error and yields no instance.
C1_SucceedsIffChecksumMatches ==
    (Finished /\ PassesFieldChecks(request)) =>
        IF ChecksumMatches(DecodedBody(request))
        THEN pc = "done"
        ELSE pc = "failed" /\ IsChecksumError(error) /\ action_queue = Unset

\* C1 amended: with a matching checksum the checksum check passes, and construction
\* succeeds unless classifying an action raises; with an absent, empty or different
\* checksum it fails with the checksum error and yields no instance.
C1_ChecksumGate ==
    (Finished /\ PassesFieldChecks(request)) =>
        IF ChecksumMatches(DecodedBody(request))
        THEN \/ pc = "done"
             \/ pc = "failed" /\ ~IsChecksumError(error) /\ action_queue # Unset
                  /\ Len(action_queue.l) < Len(RawQueue(body))
        ELSE pc = "failed" /\ IsChecksumError(error) /\ action_queue = Unset

C1_Witness ==
    /\ pc = "failed"
    /\ PassesFieldChecks(request)
    /\ Get(body, kChecksum, NullV) = DigestStr(data, "x")
    /\ error = Error("AssertionError", "Checksum does not match")

\* C2: no action is classified and the method-name parser is not called unless the
\* checksum check has passed: while the decoded document's checksum is missing or
\* differs from digest(data), action_queue holds nothing and the parser was never called.
C2_ChecksumBeforeClassification ==
    /\ (parser_calls > 0 \/ action_queue # Unset) =>
           (pc \in {"classify", "done", "failed"} /\ ChecksumMatches(body))
    /\ (Finished /\ ~IsErr(DecodedBody(request)) /\ Truthy(DecodedBody(request))
          /\ ~ChecksumMatches(DecodedBody(request))) =>
           (pc = "failed" /\ parser_calls = 0 /\ action_queue = Unset)

C2_Witness ==
    /\ pc = "failed"
    /\ IsChecksumError(error)
    /\ Len(RawQueue(body)) > 0
    /\ RawQueue(body)[1].m[kType] = Str("callMethod")
    /\ parser_calls = 0

\* The failure of the first violated check, in the order decode, name, data, id, epoch,
\* checksum; NoError when no check is violated.
FirstViolation(req) ==
    LET b == DecodedBody(req)
    IN IF IsErr(b) THEN DecodeError(b.kind)
       ELSE IF ~Truthy(b) THEN Error("AssertionError", "Invalid body")
       ELSE IF ~Truthy(req.name) THEN Error("AssertionError", "Missing component name")
       ELSE IF ~(kData \in DOMAIN b.m /\ b.m[kData] # NullV)
            THEN Error("AssertionError", "Missing data")
       ELSE IF ~Present(b, kId) THEN Error("AssertionError", "Missing component id")
       ELSE IF ~Present(b, kEpoch) THEN Error("AssertionError", "Missing epoch")
       ELSE IF ~Present(b, kChecksum) THEN Error("AssertionError", "Missing checksum")
       ELSE IF ~ChecksumMatches(b) THEN Error("AssertionError", "Checksum does not match")
       ELSE NoError

\* C3: a request that violates one or several checks fails with the error of the first
\* violated check in the order decode, component name, data, id, epoch, checksum.
C3_FirstViolationReported ==
    Finished => (FirstViolation(request) # NoError =>
                    pc = "failed" /\ error = FirstViolation(request))

C3_Witness ==
    /\ pc = "failed"
    /\ error = Error("AssertionError", "Missing component id")
    /\ ~Present(body, kId)
    /\ ~Present(body, kEpoch)
    /\ ~Present(body, kChecksum)

\* The tree the data.* keys of a form encode: the keys without their prefix, built
\* into a mapping of its own.
DataFields(post) == SelectSeq(post, LAMBDA f : StartsWithData(f[1]))
DataTree(req) == FoldPost(EmptyMap, DataFields(req.POST))
\* The form's fields are checksum, id, epoch, actionQueue and data.* keys, at least one.
IsDataForm(req) ==
    /\ req.multipart
    /\ req.FILES = <<>>
    /\ DataFields(req.POST) # <<>>
    /\ \A j \in 1..Len(req.POST) :
          \/ StartsWithData(req.POST[j][1])
          \/ req.POST[j][1] \in {kChecksum, kId, kEpoch, kActionQueue}

\* C4 as stated: the tree built from the data.* keys of a form is the data of the
\* request and what the checksum is verified against, so the form is accepted when its
\* checksum is the digest of that tree, as the JSON document with that data is.
C4_FormTreeIsData ==
    (Finished /\ IsDataForm(request) /\ ~IsErr(DecodedBody(request))) =>
        /\ data = DataTree(request)
        /\ (Get(body, kChecksum, NullV) = GenerateChecksum(DataTree(request))
              /\ Present(body, kId) /\ Present(body, kEpoch)) => pc = "done"

\* C5 as stated: in a request that passes validation, the classified sequence has the
\* length of the actionQueue and its i-th element carries the i-th raw payload and the
\* variant its type and parsed method name determine.
ClaimedVariants(action_data) ==
    LET type == Get(action_data, kType, NullV)
        bare == {r.method_name :
                   r \in {o \in ParseCallMethodName(
                                   Get(Get(action_data, kPayload, EmptyMap), kName, Str(""))) :
                            ~IsErr(o)}}
    IN IF type = Str("syncInput") THEN {"SyncInput"}
       ELSE IF type = Str("callMethod")
       THEN {IF b = "$refresh" THEN "Refresh"
             ELSE IF b = "$reset" THEN "Reset"
             ELSE IF b = "$toggle" THEN "Toggle"
             ELSE "CallMethod" : b \in bare}
       ELSE {"Action"}
ClassifiedInOrder ==
    /\ action_queue # Unset
    /\ Len(action_queue.l) = Len(RawQueue(body))
    /\ \A j \in 1..Len(action_queue.l) :
          /\ action_queue.l[j].raw = RawQueue(body)[j]
          /\ action_queue.l[j].variant \in ClaimedVariants(RawQueue(body)[j])

C5_EveryValidatedQueueClassified ==
    (Finished /\ PassesFieldChecks(request) /\ ChecksumMatches(DecodedBody(request))) =>
        ClassifiedInOrder

\* C5 amended: whenever construction completes, the classified sequence has the length
\* of the actionQueue, and its i-th element carries the i-th raw payload unchanged and
\* the variant its type and parsed method name determine; construction does not complete
\* when the method-name parser rejects a callMethod name.
C5_ClassifiedInOrder ==
    pc = "done" => ClassifiedInOrder

C5_Witness ==
    /\ pc = "done"
    /\ Len(action_queue.l) = 3
    /\ action_queue.l[1].variant = "Toggle"
    /\ action_queue.l[2].variant = "Action"
    /\ action_queue.l[3].variant = "CallMethod"
    /\ action_queue.l[3].raw = RawCallMethod("save")

\* A segment of the shape name[index]: a bracket-free name, "[", digits, "]".
IsIndexed(part) ==
    \E j \in 1..Len(part) :
        /\ part[j] = "["
        /\ part[Len(part)] = "]"
        /\ j + 1 < Len(part)
        /\ \A q \in 1..(j - 1) : part[q] \notin {"[", "]"}
        /\ \A q \in (j + 1)..(Len(part) - 1) : part[q] \in Range(Digits)
\* A segment with a bracket that is not of that shape.
IsMalformed(part) == (Range(part) \cap {"[", "]"} # {}) /\ ~IsIndexed(part)
Segments(k) == Split(StripPrefix(k))

\* What C6 says of one level of the walk: `old` is the mapping before the key was
\* applied, `new` the mapping after it, parts the segments left, value the value set.
RECURSIVE GapFilled(_, _, _, _)
GapFilled(old, new, parts, value) ==
    LET part == Head(parts)
        final == Len(parts) = 1
    IN IF IsIndexed(part) THEN
           LET base == BaseKey(part)
               index == IntOf(IndexText(part))
               before == IF base \in DOMAIN old.m THEN old.m[base].l ELSE <<>>
               after == new.m[base].l
           IN /\ Len(after) = Max(Len(before), index + 1)
              /\ \A j \in 1..Len(before) : j # index + 1 => after[j] = before[j]
              /\ \A j \in (Len(before) + 1)..index :
                    after[j] = IF final THEN NullV ELSE EmptyMap
              /\ IF final THEN after[index + 1] = value
                 ELSE GapFilled(IF index + 1 <= Len(before) THEN before[index + 1] ELSE EmptyMap,
                                after[index + 1], Tail(parts), value)
       ELSE final \/ GapFilled(Get(old, part, EmptyMap), new.m[part], Tail(parts), value)

\* Every name[index] segment of a key meets a sequence or nothing under its name.
RECURSIVE OnSequences(_, _)
OnSequences(old, parts) ==
    LET part == Head(parts)
    IN IF old.t # "map" THEN FALSE
       ELSE IF IsIndexed(part) THEN
           LET base == BaseKey(part)
               index == IntOf(IndexText(part))
           IN IF base \notin DOMAIN old.m THEN TRUE
              ELSE /\ old.m[base].t = "list"
                   /\ \/ Len(parts) = 1
                      \/ index + 1 > Len(old.m[base].l)
                      \/ OnSequences(old.m[base].l[index + 1], Tail(parts))
       ELSE Len(parts) = 1 \/ part \notin DOMAIN old.m \/ OnSequences(old.m[part], Tail(parts))

\* C6: a data.* key applied by the fields pass leaves, for each name[index] segment met
\* on a sequence of length L, a sequence of length max(L, index + 1) whose elements at
\* the other positions below L are unchanged and whose new positions below index are
\* empty mappings for an intermediate segment and null for the final one.
C6_GapFilling ==
    [][(pc = "post" /\ pc' = "post" /\ n' = n + 1
          /\ StartsWithData(request.POST[n][1])
          /\ OnSequences(parsed, Segments(request.POST[n][1])))
        => GapFilled(parsed, parsed', Segments(request.POST[n][1]), request.POST[n][2])]_vars

C6_Witness ==
    /\ pc = "post"
    /\ n = 2
    /\ request.POST[1][1] = DataKey(<<"items", "[", "2", "]", ".", "x">>)
    /\ parsed = MapOf({<<K("items"),
                         ListV(<<EmptyMap, EmptyMap, MapOf({<<K("x"), Str("v")>>})>>)>>})

\* C7 as stated: a form whose POST loop has run to its end holds no data.* key with a
\* malformed bracket segment, decoding having failed on any such key.
C7_MalformedBracketsRejected ==
    (request.multipart /\ pc \notin {"start", "post", "failed"}) =>
        \A j \in 1..Len(request.POST) :
            StartsWithData(request.POST[j][1]) =>
                \A q \in 1..Len(Segments(request.POST[j][1])) :
                    ~IsMalformed(Segments(request.POST[j][1])[q])

\* C8 as stated: the files pass puts the leaf of a key where the fields pass would put
\* a scalar with that key, the leaf being the file when there is one and the sequence
\* of files otherwise.
C8_FilesPlacedAsFields ==
    [][(pc = "files" /\ pc' = "files" /\ n' = n + 1 /\ StartsWithData(request.FILES[n][1]))
        => parsed' = SetPath(parsed, Segments(request.FILES[n][1]),
                             IF Len(request.FILES[n][2]) = 1 THEN request.FILES[n][2][1]
                             ELSE ListV(request.FILES[n][2]))]_vars

\* C9 as stated: a body that decodes to an empty document fails with the error kind of
\* a body that cannot be parsed, which is not the kind of a missing required field.
BodyParseKind == DecodeError("JSONDecodeError").kind
C9_EmptyBodyIsParseError ==
    (Finished /\ ~IsErr(DecodedBody(request)) /\ ~Truthy(DecodedBody(request))) =>
        /\ pc = "failed"
        /\ error.kind = BodyParseKind
        /\ error.kind # "AssertionError"

\* The value of the form field literally named k, Unset when there is none.
LiteralField(post, k) ==
    IF \E j \in 1..Len(post) : post[j][1] = k
    THEN post[CHOOSE j \in 1..Len(post) : post[j][1] = k][2]
    ELSE Unset

\* C10 as stated: in a decoded form, checksum, id, epoch, key and hash are the values of
\* the fields literally so named and actionQueue is the decoded value of the field so
\* named, whatever data.* fields and files the form holds.
C10_ProtocolFieldsUntouched ==
    (request.multipart /\ pc = "body_check") =>
        /\ \A k \in {kChecksum, kId, kEpoch, kKey, kHash} :
              Get(body, k, Unset) = LiteralField(request.POST, k)
        /\ Get(body, kActionQueue, Unset) =
              IF LiteralField(request.POST, kActionQueue) = Unset THEN Unset
              ELSE Loads(LiteralField(request.POST, kActionQueue))
====
